---- MODULE Spec2Model ----
(***************************************************************************)
(* State machine of the PdfQuestionWidget React component                  *)
(* (showcase-site/src/submission-widgets/pdf2Qn.jsx).                       *)
(*                                                                         *)
(* The variables are the component's useState cells, the single            *)
(* localStorage key 'savedQuizzes', and the asynchronous continuations     *)
(* that are in flight (a generation, explanation retrievals, auto-advance  *)
(* timers, byte captures of handleSaveQuiz).  Every action is one event    *)
(* handler or one continuation, run to completion, followed by the         *)
(* useEffect that React runs when pdfList changed.  A continuation keeps   *)
(* the values its closure captured when the handler was called.            *)
(*                                                                         *)
(* isDragging and showExplanation are left out: no handler reads them and  *)
(* they only select CSS classes.                                           *)
(***************************************************************************)
EXTENDS Integers, Sequences, FiniteSets, Bags, TLC

VARIABLES
  file,                 \* useState(null)          line 11
  questions,            \* useState([])            line 12
  loading,              \* useState(false)         line 13
  error,                \* useState(null)          line 14
  selectedAnswers,      \* useState({})            line 15
  score,                \* useState(0)             line 16
  explanations,         \* useState({})            line 19
  currentSlide,         \* useState(0)             line 20
  currentPage,          \* useState('upload')      line 21
  pdfList,              \* useState([])            line 22
  localStorage,         \* the value stored under 'savedQuizzes'
  mounted,              \* FALSE until the two mount effects have run
  now,                  \* the clock read by Date.now()
  generation,           \* the generateQuestions call in flight, or NoCall
  pendingExplanations,  \* handleAnswerSelect calls awaiting generateExplanation
  pendingTimers,        \* setTimeout callbacks of handleAnswerSelect not yet run
  pendingSaves,         \* handleSaveQuiz calls awaiting file.arrayBuffer(), in order
  lastOp                \* history: the handler or continuation that ran last

vars == <<file, questions, loading, error, selectedAnswers, score, explanations,
          currentSlide, currentPage, pdfList, localStorage, mounted, now,
          generation, pendingExplanations, pendingTimers, pendingSaves, lastOp>>

sessionVars == <<file, questions, loading, error, selectedAnswers, score,
                 explanations, currentSlide>>

asyncVars == <<generation, pendingExplanations, pendingTimers, pendingSaves>>

(***************************************************************************)
(* Bounds of the model.                                                    *)
(***************************************************************************)
MaxClock == 2
MaxRecords == 2
MaxPendingExplanations == 2
MaxPendingTimers == 2
MaxPendingSaves == 2
MaxReportedSlide == 2

(***************************************************************************)
(* Values.                                                                 *)
(***************************************************************************)
Null == "null"
Undefined == "undefined"

NoFile == [type |-> "null"]
NoCall == [active |-> FALSE]
EmptyMap == [i \in {} |-> Null]
EmptyObject == [kind |-> "Object"]

PdfType == "application/pdf"

\* The files the user can pick or drop: one PDF, one file of another type.
PdfA == [type |-> PdfType, name |-> "a.pdf", content |-> "%PDF-a"]
TextFile == [type |-> "text/plain", name |-> "notes.txt", content |-> "notes"]
UserFiles == {PdfA, TextFile}

\* event.target.files[0] / e.dataTransfer.files[0]: a file, or undefined when
\* the list is empty.
FileInputs == UserFiles \cup {NoFile}

IsPdf(f) == f # NoFile /\ f.type = PdfType

\* Questions as the generator writes them.  QNoCorrect lacks the correctAnswer
\* field and QOneOption has a single option: both are valid JSON.
QA == [question |-> "qa", options |-> <<"a", "b">>, correctAnswer |-> "a"]
QB == [question |-> "qb", options |-> <<"a", "b">>, correctAnswer |-> "b"]
QNoCorrect == [question |-> "qn", options |-> <<"a", "b">>]
QOneOption == [question |-> "qo", options |-> <<"a">>, correctAnswer |-> "a"]

WellFormedLists == {<<QA, QB>>, <<QB>>}
MalformedLists == {<<QNoCorrect>>, <<QOneOption>>}

\* question.correctAnswer: undefined when the object has no such field.
CorrectAnswerOf(q) ==
  IF "correctAnswer" \in DOMAIN q THEN q.correctAnswer ELSE Undefined

\* The structural shape the generator is asked for: an array of objects with
\* question, options (at least two) and correctAnswer among the options.
IsWellFormedQuestion(q) ==
  /\ {"question", "options", "correctAnswer"} \subseteq DOMAIN q
  /\ Len(q.options) >= 2
  /\ \E k \in 1..Len(q.options) : q.options[k] = q.correctAnswer

IsWellFormedList(qs) == \A k \in 1..Len(qs) : IsWellFormedQuestion(qs[k])

\* Zero-based indices of a JavaScript array held as a TLA+ sequence.
Indices(qs) == 0 .. (Len(qs) - 1)
At(qs, i) == qs[i + 1]
OptionsOf(q) == {q.options[k] : k \in 1..Len(q.options)}

\* {...prev, [key]: value}
Put(map, key, value) ==
  [k \in (DOMAIN map) \cup {key} |-> IF k = key THEN value ELSE map[k]]

\* Object.keys(selectedAnswers).length
KeyCount(map) == Cardinality(DOMAIN map)

(***************************************************************************)
(* Files, byte buffers and JSON.                                           *)
(***************************************************************************)
\* await file.arrayBuffer()
ArrayBufferOf(f) == [kind |-> "ArrayBuffer", bytes |-> f.content]

\* What the Blob constructor makes of one part: the bytes of an ArrayBuffer,
\* and String(part) for any other object.
BlobText(part) ==
  IF part.kind = "ArrayBuffer" THEN part.bytes ELSE "[object Object]"

\* new File([part], fileName, { type: 'application/pdf' })
NewFile(part, fileName) ==
  [type |-> PdfType, name |-> fileName, content |-> BlobText(part)]

\* new Date().toLocaleDateString(): every event of a run falls on one day.
LocaleDateString(t) == "today"

\* JSON.stringify of one record of pdfList: a File and an ArrayBuffer have no
\* enumerable own properties, so both are written as {}; a field the object
\* does not have is not written.
JsonOfRecord(r) ==
  [k \in DOMAIN r |-> IF k \in {"file", "fileData"} THEN EmptyObject ELSE r[k]]

\* The value kept under the key: absent, or a text.  A text is modelled by the
\* value JSON.parse gives for it, or marked as one JSON.parse rejects.
NoItem == [kind |-> "absent"]
CorruptItem == [kind |-> "text", parses |-> FALSE]
JsonStringify(list) ==
  [kind |-> "text", parses |-> TRUE, array |-> TRUE,
   value |-> [k \in 1..Len(list) |-> JsonOfRecord(list[k])]]
JsonParses(item) == item.kind = "text" /\ item.parses
JsonParse(item) == item.value

\* Texts that JSON.parse accepts and the widget never wrote: the text {},
\* whose value is no array, and the text [{"junk":true}].
NotAListItem == [kind |-> "text", parses |-> TRUE, array |-> FALSE]
JunkListItem ==
  [kind |-> "text", parses |-> TRUE, array |-> TRUE,
   value |-> <<[junk |-> TRUE]>>]

\* parsedQuizzes.map exists: the parsed value is an array.
HasMap(item) == item.array

\* Lines 321-325: {...quiz, fileName: quiz.file.name, fileData: quiz.fileData}
SerializeQuiz(quiz) == Put(quiz, "fileName", quiz.file.name)

\* Line 307: new File([quiz.fileData], quiz.fileName, ...).  A field the
\* parsed object lacks reads as undefined, which the File constructor turns
\* into the text "undefined".
FileOfQuiz(quiz) ==
  [type |-> PdfType,
   name |-> IF "fileName" \in DOMAIN quiz THEN quiz.fileName ELSE Undefined,
   content |-> IF "fileData" \in DOMAIN quiz THEN BlobText(quiz.fileData)
                                             ELSE Undefined]

\* Lines 305-308: {...quiz, file: new File([quiz.fileData], quiz.fileName, ...)}
QuizWithFile(quiz) == Put(quiz, "file", FileOfQuiz(quiz))

\* The length in characters of the text JSON.stringify writes for the list:
\* a number in its digits, a string between quotes, {} for a File or an
\* ArrayBuffer, every member as "key":value, members and elements separated
\* by commas.  A text that holds no list counts as nothing.
RECURSIVE DigitCount(_)
DigitCount(n) == IF n < 10 THEN 1 ELSE 1 + DigitCount(n \div 10)

RECURSIVE SumOf(_)
SumOf(lengths) ==
  IF Len(lengths) = 0 THEN 0 ELSE Head(lengths) + SumOf(Tail(lengths))

ArrayLength(lengths) ==
  2 + SumOf(lengths) + (IF Len(lengths) > 0 THEN Len(lengths) - 1 ELSE 0)

RECURSIVE RecordLength(_)
RECURSIVE MemberLength(_, _)
RECURSIVE MembersLength(_, _)

MemberLength(key, value) ==
  Len(key) + 3 +
    CASE key \in {"id", "score", "totalQuestions"} -> DigitCount(value)
      [] key \in {"file", "fileData"} -> 2
      [] key = "junk" -> 4
      [] key = "options" ->
           ArrayLength([k \in 1..Len(value) |-> Len(value[k]) + 2])
      [] key = "questions" ->
           ArrayLength([k \in 1..Len(value) |-> RecordLength(value[k])])
      [] OTHER -> Len(value) + 2

MembersLength(r, keys) ==
  IF keys = {} THEN 0
  ELSE LET key == CHOOSE k \in keys : TRUE
       IN  MemberLength(key, r[key]) + MembersLength(r, keys \ {key})

RecordLength(r) ==
  2 + MembersLength(r, DOMAIN r)
    + (IF DOMAIN r = {} THEN 0 ELSE Cardinality(DOMAIN r) - 1)

ListLength(list) ==
  ArrayLength([k \in 1..Len(list) |-> RecordLength(list[k])])

ItemLength(item) ==
  IF JsonParses(item) /\ HasMap(item) THEN ListLength(JsonParse(item)) ELSE 0

\* Line 326: the text the save effect hands to setItem.
SerializedQuizzes(list) ==
  JsonStringify([k \in 1..Len(list) |-> SerializeQuiz(list[k])])

\* Line 326: localStorage.setItem throws when the storage quota is exceeded,
\* which it can be only by a text longer than the one the key held: the
\* outcomes of the call for the text of list, FALSE for a completed write.
SetItemThrows(list, held) ==
  IF Len(list) > 0 /\ ItemLength(SerializedQuizzes(list)) > ItemLength(held)
    THEN BOOLEAN
    ELSE {FALSE}

\* A save effect without the removeItem branch.
PersistEffectKeepsKey(list, store, throws) ==
  IF throws THEN store ELSE SerializedQuizzes(list)

\* The useEffect on [pdfList], lines 317-333, for the list just rendered over
\* the store it finds: a setItem that throws is caught at line 327 and leaves
\* the store as it was.
PersistEffect(list, store, throws) ==
  IF Len(list) > 0
    THEN IF throws THEN store ELSE SerializedQuizzes(list)
    ELSE NoItem

\* A record that is appended without the questions of the session.
SavedRecordDropsQuestions(f, data, qs, sc, t) ==
  [id |-> t, name |-> f.name, file |-> f, fileData |-> data,
   fileName |-> f.name, date |-> LocaleDateString(t), questions |-> <<>>,
   score |-> sc, totalQuestions |-> Len(qs)]

\* The record handleSaveQuiz appends, lines 246-256.
SavedRecord(f, data, qs, sc, t) ==
  [id |-> t, name |-> f.name, file |-> f, fileData |-> data,
   fileName |-> f.name, date |-> LocaleDateString(t), questions |-> qs,
   score |-> sc, totalQuestions |-> Len(qs)]

\* A collection an earlier run of the widget left in the store.
EarlierRecord == SavedRecord(PdfA, ArrayBufferOf(PdfA), <<QB>>, 0, 0)
InitialItems == {NoItem, CorruptItem, SerializedQuizzes(<<EarlierRecord>>)}

(***************************************************************************)
(* Initial state: the first render, before the mount effects.              *)
(***************************************************************************)
FirstRender ==
  /\ file = NoFile
  /\ questions = <<>>
  /\ loading = FALSE
  /\ error = Null
  /\ selectedAnswers = EmptyMap
  /\ score = 0
  /\ explanations = EmptyMap
  /\ currentSlide = 0
  /\ currentPage = "upload"
  /\ pdfList = <<>>
  /\ mounted = FALSE
  /\ now = 1
  /\ generation = NoCall
  /\ pendingExplanations = EmptyBag
  /\ pendingTimers = EmptyBag
  /\ pendingSaves = <<>>
  /\ lastOp = [op |-> "render"]

Init == FirstRender /\ localStorage \in InitialItems

\* The first render over a store that may also hold a text the widget never
\* wrote, or the two quizzes an earlier run saved.
LaterRecord == SavedRecord(PdfA, ArrayBufferOf(PdfA), <<QA, QB>>, 1, 1)
StartItems ==
  InitialItems
    \cup {NotAListItem, JunkListItem,
          SerializedQuizzes(<<EarlierRecord, LaterRecord>>)}
LoadInit == FirstRender /\ localStorage \in StartItems

\* What the load effect (lines 299-314) passes to setPdfList; the list stays []
\* when the key is absent, when the text does not parse, and when the parsed
\* value has no map method (the TypeError is caught at line 310).
LoadedQuizzes(item) ==
  IF JsonParses(item) /\ HasMap(item)
    THEN [k \in 1..Len(JsonParse(item)) |-> QuizWithFile(JsonParse(item)[k])]
    ELSE <<>>

\* Mount effects in which the save effect is not run again for the loaded
\* list: the removeItem of its first run is the last write.
MountLosesStore ==
  /\ ~mounted
  /\ mounted' = TRUE
  /\ pdfList' = LoadedQuizzes(localStorage)
  /\ localStorage' = PersistEffect(<<>>, localStorage, FALSE)
  /\ lastOp' = [op |-> "mount"]
  /\ UNCHANGED <<sessionVars, currentPage, now, asyncVars>>

\* Mount: the load effect, the first run of the save effect with pdfList = []
\* (removeItem), and the save effect of the render that shows the loaded list,
\* whose setItem has the room the removeItem freed.
Mount ==
  /\ ~mounted
  /\ mounted' = TRUE
  /\ pdfList' = LoadedQuizzes(localStorage)
  /\ \E throws \in SetItemThrows(pdfList', localStorage) :
       localStorage' =
         PersistEffect(pdfList', PersistEffect(<<>>, localStorage, FALSE),
                       throws)
  /\ lastOp' = [op |-> "mount"]
  /\ UNCHANGED <<sessionVars, currentPage, now, asyncVars>>

\* Date.now() advances.
Tick ==
  /\ mounted
  /\ now < MaxClock
  /\ now' = now + 1
  /\ UNCHANGED <<sessionVars, currentPage, pdfList, localStorage, mounted,
                 asyncVars, lastOp>>

(***************************************************************************)
(* File selection.                                                         *)
(***************************************************************************)
\* Lines 75-84.  The browse input is rendered on the upload page while no file
\* is selected (lines 470-485).
handleFileChange(selectedFile) ==
  /\ mounted /\ currentPage = "upload" /\ file = NoFile
  /\ IF IsPdf(selectedFile)
       THEN file' = selectedFile /\ error' = Null
       ELSE error' = "Please select a valid PDF file" /\ file' = NoFile
  /\ lastOp' = [op |-> "handleFileChange", accepted |-> IsPdf(selectedFile)]
  /\ UNCHANGED <<questions, loading, selectedAnswers, score, explanations,
                 currentSlide, currentPage, pdfList, localStorage, mounted, now,
                 asyncVars>>

\* A drop handler that clears the questions when it rejects the file.
handleDropClearsQuestions(droppedFile) ==
  /\ mounted /\ currentPage = "upload"
  /\ IF IsPdf(droppedFile)
       THEN file' = droppedFile /\ error' = Null /\ UNCHANGED questions
       ELSE error' = "Please drop a valid PDF file" /\ file' = NoFile
            /\ questions' = <<>>
  /\ lastOp' = [op |-> "handleDrop", accepted |-> IsPdf(droppedFile)]
  /\ UNCHANGED <<loading, selectedAnswers, score, explanations,
                 currentSlide, currentPage, pdfList, localStorage, mounted, now,
                 asyncVars>>

\* Lines 60-73.  The drop zone is rendered on the upload page (lines 453-462).
handleDrop(droppedFile) ==
  /\ mounted /\ currentPage = "upload"
  /\ IF IsPdf(droppedFile)
       THEN file' = droppedFile /\ error' = Null
       ELSE error' = "Please drop a valid PDF file" /\ file' = NoFile
  /\ lastOp' = [op |-> "handleDrop", accepted |-> IsPdf(droppedFile)]
  /\ UNCHANGED <<questions, loading, selectedAnswers, score, explanations,
                 currentSlide, currentPage, pdfList, localStorage, mounted, now,
                 asyncVars>>

(***************************************************************************)
(* Answering.                                                              *)
(***************************************************************************)
\* A comparison that takes every answer for the correct one.
IsCorrectAlways(qs, questionIndex, answer) == TRUE

\* Line 115: answer === questions[questionIndex].correctAnswer
IsCorrect(qs, questionIndex, answer) ==
  answer = CorrectAnswerOf(At(qs, questionIndex))

\* A handler without the guard of line 108.
IsAnsweredUnguarded(answers, questionIndex) == FALSE

\* Line 108: selectedAnswers[questionIndex] !== undefined
IsAnswered(answers, questionIndex) == questionIndex \in DOMAIN answers

\* The text generateExplanation resolves to (lines 86-105): the model's answer
\* to the prompt built from the question and the user's answer, or the
\* placeholder of the catch branch.
ExplanationText(question, userAnswer) ==
  [text |-> "explanation", correctAnswer |-> CorrectAnswerOf(question),
   userAnswer |-> userAnswer]

\* A catch branch that returns an empty text.
UnableToGenerateEmpty == [text |-> ""]

\* Line 103: the value of the catch branch.
UnableToGenerate == [text |-> "Unable to generate explanation."]

\* The callback handed to setTimeout, lines 126-133, with the questionIndex
\* and the questions array of the call that scheduled it.
AdvanceTimer(questionIndex, qs) ==
  [questionIndex |-> questionIndex, length |-> Len(qs)]

\* Line 119: the call that awaits generateExplanation, with the questionIndex,
\* the answer and the questions array of the handler's render.  The calls in
\* flight form a bag: two calls with the same arguments are two calls.
ExplanationCall(questionIndex, answer, qs) ==
  [questionIndex |-> questionIndex, question |-> At(qs, questionIndex),
   userAnswer |-> answer, length |-> Len(qs)]

\* Lines 107-134, up to the first await.  An option of question questionIndex
\* is clicked on the upload page (lines 576-611).
handleAnswerSelect(questionIndex, answer) ==
  /\ mounted /\ currentPage = "upload"
  /\ questionIndex \in Indices(questions)
  /\ answer \in OptionsOf(At(questions, questionIndex))
  /\ lastOp' = [op |-> "handleAnswerSelect",
                ignored |-> IsAnswered(selectedAnswers, questionIndex)]
  /\ IF IsAnswered(selectedAnswers, questionIndex)
       THEN UNCHANGED <<selectedAnswers, score, pendingExplanations,
                        pendingTimers>>
       ELSE /\ selectedAnswers' = Put(selectedAnswers, questionIndex, answer)
            /\ IF IsCorrect(questions, questionIndex, answer)
                 THEN /\ score' = score + 1
                      /\ pendingTimers' = pendingTimers (+)
                           SetToBag({AdvanceTimer(questionIndex, questions)})
                      /\ BagCardinality(pendingTimers') <= MaxPendingTimers
                      /\ UNCHANGED pendingExplanations
                 ELSE /\ score' = score
                      /\ pendingExplanations' = pendingExplanations (+)
                           SetToBag({ExplanationCall(questionIndex, answer,
                                                     questions)})
                      /\ BagCardinality(pendingExplanations') <=
                           MaxPendingExplanations
                      /\ UNCHANGED pendingTimers
  /\ UNCHANGED <<file, questions, loading, error, explanations, currentSlide,
                 currentPage, pdfList, localStorage, mounted, now, generation,
                 pendingSaves>>

\* A continuation that writes the map of its own render plus its result, not
\* an update of the latest map.
explanationResolvedReplaces(call, failed) ==
  /\ BagIn(call, pendingExplanations)
  /\ explanations' = Put(EmptyMap, call.questionIndex,
       IF failed THEN UnableToGenerate
                 ELSE ExplanationText(call.question, call.userAnswer))
  /\ pendingExplanations' = pendingExplanations (-) SetToBag({call})
  /\ pendingTimers' = pendingTimers (+)
       SetToBag({[questionIndex |-> call.questionIndex,
                  length |-> call.length]})
  /\ BagCardinality(pendingTimers') <= MaxPendingTimers
  /\ lastOp' = [op |-> "explanationResolved", failed |-> failed]
  /\ UNCHANGED <<file, questions, loading, error, selectedAnswers, score,
                 currentSlide, currentPage, pdfList, localStorage, mounted, now,
                 generation, pendingSaves>>

\* Lines 119-133: generateExplanation has resolved, with the model's text or
\* with the placeholder; the explanation is merged and the timer is set.
explanationResolved(call, failed) ==
  /\ BagIn(call, pendingExplanations)
  /\ explanations' = Put(explanations, call.questionIndex,
       IF failed THEN UnableToGenerate
                 ELSE ExplanationText(call.question, call.userAnswer))
  /\ pendingExplanations' = pendingExplanations (-) SetToBag({call})
  /\ pendingTimers' = pendingTimers (+)
       SetToBag({[questionIndex |-> call.questionIndex,
                  length |-> call.length]})
  /\ BagCardinality(pendingTimers') <= MaxPendingTimers
  /\ lastOp' = [op |-> "explanationResolved", failed |-> failed]
  /\ UNCHANGED <<file, questions, loading, error, selectedAnswers, score,
                 currentSlide, currentPage, pdfList, localStorage, mounted, now,
                 generation, pendingSaves>>

\* A timer callback that never moves the carousel.
advanceTimerFiredStays(timer) ==
  /\ BagIn(timer, pendingTimers)
  /\ pendingTimers' = pendingTimers (-) SetToBag({timer})
  /\ UNCHANGED currentSlide
  /\ lastOp' = [op |-> "advanceTimerFired"]
  /\ UNCHANGED <<file, questions, loading, error, selectedAnswers, score,
                 explanations, currentPage, pdfList, localStorage, mounted, now,
                 generation, pendingExplanations, pendingSaves>>

\* Lines 126-133: the timer callback runs.
advanceTimerFired(timer) ==
  /\ BagIn(timer, pendingTimers)
  /\ pendingTimers' = pendingTimers (-) SetToBag({timer})
  /\ IF timer.questionIndex < timer.length - 1
       THEN currentSlide' = timer.questionIndex + 1
       ELSE UNCHANGED currentSlide
  /\ lastOp' = [op |-> "advanceTimerFired"]
  /\ UNCHANGED <<file, questions, loading, error, selectedAnswers, score,
                 explanations, currentPage, pdfList, localStorage, mounted, now,
                 generation, pendingExplanations, pendingSaves>>

\* Line 618, and 631: the score panel, and its buttons.
IsComplete == KeyCount(selectedAnswers) = Len(questions)
PanelButtonsShown ==
  /\ currentPage = "upload"
  /\ Len(questions) > 0
  /\ IsComplete
  /\ score < Len(questions)

\* A resetQuiz that forgets setScore(0).
resetQuizKeepsScore ==
  /\ selectedAnswers' = EmptyMap
  /\ score' = score
  /\ explanations' = EmptyMap

\* Lines 136-141: the three setters of resetQuiz.
resetQuizUpdate ==
  /\ selectedAnswers' = EmptyMap
  /\ score' = 0
  /\ explanations' = EmptyMap

\* A Try Again that also goes back to the first slide.
resetQuizToFirstSlide ==
  /\ mounted /\ PanelButtonsShown
  /\ resetQuizUpdate
  /\ currentSlide' = 0
  /\ lastOp' = [op |-> "resetQuiz"]
  /\ UNCHANGED <<file, questions, loading, error, currentPage,
                 pdfList, localStorage, mounted, now, asyncVars>>

\* The Try Again button, lines 647-652.
resetQuiz ==
  /\ mounted /\ PanelButtonsShown
  /\ resetQuizUpdate
  /\ lastOp' = [op |-> "resetQuiz"]
  /\ UNCHANGED <<file, questions, loading, error, currentSlide, currentPage,
                 pdfList, localStorage, mounted, now, asyncVars>>

(***************************************************************************)
(* Generation.                                                             *)
(***************************************************************************)
\* response.text(): the JSON of a question list, bare or in a ```json fence,
\* or a text that is no JSON.
ResponseTexts ==
  [fenced : BOOLEAN, json : {TRUE},
   value : WellFormedLists \cup MalformedLists]
    \cup [fenced : BOOLEAN, json : {FALSE}]

\* Line 180: text.replace(/```json\n?|\n?```/g, '').trim()
CleanText(text) == [text EXCEPT !.fenced = FALSE]

\* Line 181: JSON.parse throws on a fence and on a text that is no JSON.
TextParses(text) == ~text.fenced /\ text.json

\* extractTextFromPDF (lines 143-156) succeeds only on the bytes of a PDF.
IsPdfContent(f) == f.content = PdfA.content

\* History kept in the record of the call in flight: the session as it was
\* before the click, and whether the session was cleared or replaced since.
Superseded(call) ==
  IF call.active THEN [call EXCEPT !.superseded = TRUE] ELSE call

\* A button that stays enabled while a generation is loading.
GenerateEnabledWhileLoading == file # NoFile

\* Line 499: disabled={loading || !file}
GenerateEnabled == ~loading /\ file # NoFile

\* The Generate Questions button, lines 497-499, and lines 158-166.
generateQuestions ==
  /\ mounted /\ currentPage = "upload"
  /\ GenerateEnabled
  /\ loading' = TRUE
  /\ error' = Null
  /\ resetQuizUpdate
  /\ generation' = [active |-> TRUE, file |-> file, superseded |-> FALSE,
                    before |-> [questions |-> questions,
                                selectedAnswers |-> selectedAnswers,
                                score |-> score,
                                explanations |-> explanations]]
  /\ lastOp' = [op |-> "generateQuestions"]
  /\ UNCHANGED <<file, questions, currentSlide, currentPage, pdfList,
                 localStorage, mounted, now, pendingExplanations,
                 pendingTimers, pendingSaves>>

\* A catch branch that is not followed by the finally of lines 190-192.
generationFailedKeepsLoading ==
  /\ generation.active
  /\ error' = "Failed to generate questions. Please try again."
  /\ loading' = loading
  /\ generation' = NoCall
  /\ lastOp' = [op |-> "generationFailed"]
  /\ UNCHANGED <<file, questions, selectedAnswers, score, explanations,
                 currentSlide, currentPage, pdfList, localStorage, mounted, now,
                 pendingExplanations, pendingTimers, pendingSaves>>

\* Lines 187-192: extractTextFromPDF or generateContent threw.
generationFailed ==
  /\ generation.active
  /\ error' = "Failed to generate questions. Please try again."
  /\ loading' = FALSE
  /\ generation' = NoCall
  /\ lastOp' = [op |-> "generationFailed"]
  /\ UNCHANGED <<file, questions, selectedAnswers, score, explanations,
                 currentSlide, currentPage, pdfList, localStorage, mounted, now,
                 pendingExplanations, pendingTimers, pendingSaves>>

\* Lines 175-186 and 190-192: the provider answered with text.
generationResponded(text) ==
  /\ generation.active
  /\ IsPdfContent(generation.file)
  /\ IF TextParses(CleanText(text))
       THEN questions' = text.value /\ UNCHANGED error
       ELSE error' = "Failed to parse questions. Please try again."
            /\ UNCHANGED questions
  /\ loading' = FALSE
  /\ generation' = NoCall
  /\ lastOp' = [op |-> "generationResponded",
                wellFormed |-> TextParses(CleanText(text))
                               /\ IsWellFormedList(text.value)]
  /\ UNCHANGED <<file, selectedAnswers, score, explanations, currentSlide,
                 currentPage, pdfList, localStorage, mounted, now,
                 pendingExplanations, pendingTimers, pendingSaves>>

(***************************************************************************)
(* Saved quizzes.                                                          *)
(***************************************************************************)
\* The calls in flight without the n-th.
WithoutCall(calls, n) ==
  [k \in 1..(Len(calls) - 1) |-> IF k < n THEN calls[k] ELSE calls[k + 1]]

\* The Save Quiz button (lines 641-646) and lines 240-244: the handler keeps
\* file, questions and score of the render it was created in while it awaits
\* file.arrayBuffer().
handleSaveQuiz ==
  /\ mounted /\ PanelButtonsShown
  /\ IF file # NoFile /\ Len(questions) > 0
       THEN /\ pendingSaves' = Append(pendingSaves,
                 [file |-> file, questions |-> questions, score |-> score])
            /\ Len(pendingSaves') <= MaxPendingSaves
       ELSE UNCHANGED pendingSaves
  /\ lastOp' = [op |-> "handleSaveQuiz"]
  /\ UNCHANGED <<sessionVars, currentPage, pdfList, localStorage, mounted, now,
                 generation, pendingExplanations, pendingTimers>>

\* Lines 246-257: the bytes arrived; the record is appended with the clock's
\* value as id, the list page is shown and the save effect stores the list.
saveResolved(n) ==
  /\ n \in 1..Len(pendingSaves)
  /\ Len(pdfList) < MaxRecords
  /\ pendingSaves' = WithoutCall(pendingSaves, n)
  /\ pdfList' = Append(pdfList,
       SavedRecord(pendingSaves[n].file, ArrayBufferOf(pendingSaves[n].file),
                   pendingSaves[n].questions, pendingSaves[n].score, now))
  /\ \E throws \in SetItemThrows(pdfList', localStorage) :
       localStorage' = PersistEffect(pdfList', localStorage, throws)
  /\ currentPage' = "list"
  /\ lastOp' = [op |-> "saveResolved"]
  /\ UNCHANGED <<sessionVars, mounted, now, generation, pendingExplanations,
                 pendingTimers>>

\* Lines 258-261: file.arrayBuffer() rejected.
saveRejected(n) ==
  /\ n \in 1..Len(pendingSaves)
  /\ pendingSaves' = WithoutCall(pendingSaves, n)
  /\ error' = "Failed to save quiz. Please try again."
  /\ lastOp' = [op |-> "saveRejected"]
  /\ UNCHANGED <<file, questions, loading, selectedAnswers, score, explanations,
                 currentSlide, currentPage, pdfList, localStorage, mounted, now,
                 generation, pendingExplanations, pendingTimers>>

\* Lines 265-281, from the Try Again button of a row of the list page
\* (lines 716-724).
handlePdfSelect(pdfItem) ==
  /\ mounted /\ currentPage = "list"
  /\ \E k \in 1..Len(pdfList) : pdfList[k] = pdfItem
  /\ file' = NewFile(pdfItem.fileData, pdfItem.fileName)
  /\ questions' = pdfItem.questions
  /\ selectedAnswers' = EmptyMap
  /\ score' = 0
  /\ error' = Null
  /\ explanations' = EmptyMap
  /\ currentPage' = "upload"
  /\ generation' = Superseded(generation)
  /\ lastOp' = [op |-> "handlePdfSelect"]
  /\ UNCHANGED <<loading, currentSlide, pdfList, localStorage, mounted, now,
                 pendingExplanations, pendingTimers, pendingSaves>>

\* Line 284: prev.filter(item => item.id !== pdfId)
WithoutId(list, pdfId) == SelectSeq(list, LAMBDA item : item.id # pdfId)

\* The ids a record can carry: the earlier run's, and the clock's values.
RecordIds == 0..MaxClock

\* Lines 283-285 and the save effect, from the Delete button of a row
\* (lines 725-733) or with any other id.
handleDeletePdf(pdfId) ==
  /\ mounted /\ currentPage = "list"
  /\ pdfList' = WithoutId(pdfList, pdfId)
  /\ \E throws \in SetItemThrows(pdfList', localStorage) :
       localStorage' = PersistEffect(pdfList', localStorage, throws)
  /\ lastOp' = [op |-> "handleDeletePdf",
                removed |-> Len(pdfList') < Len(pdfList)]
  /\ UNCHANGED <<sessionVars, currentPage, mounted, now, asyncVars>>

\* Lines 287-296 and the save effect.  The header button is rendered while
\* there are questions and the explanation page is not shown (lines 435-445);
\* the Clear All button of the score panel (lines 676-681) needs no more.
clearAll ==
  /\ mounted
  /\ Len(questions) > 0 /\ currentPage # "explanation"
  /\ file' = NoFile
  /\ questions' = <<>>
  /\ selectedAnswers' = EmptyMap
  /\ score' = 0
  /\ error' = Null
  /\ explanations' = EmptyMap
  /\ pdfList' = <<>>
  /\ \E throws \in SetItemThrows(pdfList', localStorage) :
       localStorage' = PersistEffect(pdfList', localStorage, throws)
  /\ generation' = Superseded(generation)
  /\ lastOp' = [op |-> "clearAll"]
  /\ UNCHANGED <<loading, currentSlide, currentPage, mounted, now,
                 pendingExplanations, pendingTimers, pendingSaves>>

\* The Upload New PDF input of the score panel, lines 653-675.
uploadNewPdf(selectedFile) ==
  /\ mounted /\ PanelButtonsShown
  /\ IF IsPdf(selectedFile)
       THEN /\ file' = selectedFile
            /\ questions' = <<>>
            /\ selectedAnswers' = EmptyMap
            /\ score' = 0
            /\ error' = Null
            /\ explanations' = EmptyMap
            /\ generation' = Superseded(generation)
       ELSE /\ error' = "Please select a valid PDF file"
            /\ file' = NoFile
            /\ UNCHANGED <<questions, selectedAnswers, score, explanations,
                           generation>>
  /\ lastOp' = [op |-> "uploadNewPdf", accepted |-> IsPdf(selectedFile)]
  /\ UNCHANGED <<loading, currentSlide, currentPage, pdfList, localStorage,
                 mounted, now, pendingExplanations, pendingTimers,
                 pendingSaves>>

(***************************************************************************)
(* Pages and slides.                                                       *)
(***************************************************************************)
\* The header's list button, lines 420-434.
togglePage ==
  /\ mounted /\ currentPage # "explanation"
  /\ currentPage' = IF currentPage = "upload" THEN "list" ELSE "upload"
  /\ lastOp' = [op |-> "togglePage"]
  /\ UNCHANGED <<sessionVars, pdfList, localStorage, mounted, now, asyncVars>>

\* The View Explanations button, lines 633-638.
viewExplanations ==
  /\ mounted /\ PanelButtonsShown
  /\ currentPage' = "explanation"
  /\ lastOp' = [op |-> "viewExplanations"]
  /\ UNCHANGED <<sessionVars, pdfList, localStorage, mounted, now, asyncVars>>

\* The Back to Quiz button of the explanation page, lines 342-350.
backToQuiz ==
  /\ mounted /\ currentPage = "explanation"
  /\ currentPage' = "upload"
  /\ lastOp' = [op |-> "backToQuiz"]
  /\ UNCHANGED <<sessionVars, pdfList, localStorage, mounted, now, asyncVars>>

CarouselShown == currentPage = "upload" /\ Len(questions) > 0

\* The second argument the carousel hands to afterChange when it is the
\* carousel's state object and not a slide number.
CarouselStates == [currentSlide : 0..1, onMove : {FALSE}]

\* currentSlide holds a number and not a state object of the carousel.  The
\* comparisons of lines 545 and 558 are false for an object.
IsNumber(v) == ToString(v) \notin {ToString(state) : state \in CarouselStates}

\* The carousel's previous button, lines 544-549.
previousSlide ==
  /\ mounted /\ CarouselShown
  /\ IF IsNumber(currentSlide) /\ currentSlide > 0
       THEN currentSlide' = currentSlide - 1
       ELSE UNCHANGED currentSlide
  /\ lastOp' = [op |-> "previousSlide"]
  /\ UNCHANGED <<file, questions, loading, error, selectedAnswers, score,
                 explanations, currentPage, pdfList, localStorage, mounted, now,
                 asyncVars>>

\* The carousel's next button, lines 557-562.
nextSlide ==
  /\ mounted /\ CarouselShown
  /\ IF IsNumber(currentSlide) /\ currentSlide < Len(questions) - 1
       THEN currentSlide' = currentSlide + 1
       ELSE UNCHANGED currentSlide
  /\ lastOp' = [op |-> "nextSlide"]
  /\ UNCHANGED <<file, questions, loading, error, selectedAnswers, score,
                 explanations, currentPage, pdfList, localStorage, mounted, now,
                 asyncVars>>

\* afterChange, lines 572-574: the carousel calls the handler after a move
\* and the handler stores the second argument as it is, a slide number of any
\* size or the carousel's state object.
afterChange(previous, state) ==
  /\ mounted /\ CarouselShown
  /\ currentSlide' = state
  /\ lastOp' = [op |-> "afterChange"]
  /\ UNCHANGED <<file, questions, loading, error, selectedAnswers, score,
                 explanations, currentPage, pdfList, localStorage, mounted, now,
                 asyncVars>>

(***************************************************************************)
(* Specifications.                                                         *)
(*                                                                         *)
(* The handlers and continuations above are the whole component.  Each     *)
(* specification below runs them under one class of user sessions: it      *)
(* fixes which inputs the user and the provider give and which of the      *)
(* continuations may still be in flight when the next event arrives.       *)
(***************************************************************************)
Answers == {"a", "b"}
QuestionIndices == 0..1

\* No explanation retrieval and no auto-advance timer is in flight.
Settled == pendingExplanations = EmptyBag /\ pendingTimers = EmptyBag

explanationCompletes ==
  \E c \in BagToSet(pendingExplanations), failed \in BOOLEAN :
    explanationResolved(c, failed)

timerCompletes == \E t \in BagToSet(pendingTimers) : advanceTimerFired(t)

\* Spec: sessions in which a generation may be in flight across any number of
\* user events, while explanations and timers complete before the next event.
Next ==
  \/ Mount
  \/ explanationCompletes
  \/ timerCompletes
  \/ Settled /\ \E f \in FileInputs : handleFileChange(f)
  \/ Settled /\ \E f \in FileInputs : handleDrop(f)
  \/ Settled /\ \E i \in QuestionIndices, a \in Answers :
                  handleAnswerSelect(i, a)
  \/ Settled /\ resetQuiz
  \/ Settled /\ generateQuestions
  \/ Settled /\ generationFailed
  \/ Settled /\ \E text \in ResponseTexts : generationResponded(text)
  \/ Settled /\ \E k \in 1..Len(pdfList) : handlePdfSelect(pdfList[k])
  \/ Settled /\ clearAll
  \/ Settled /\ \E f \in FileInputs : uploadNewPdf(f)
  \/ Settled /\ togglePage

Spec == Init /\ [][Next]_vars

\* ConformingSpec: as Spec, with a provider whose answer, when it is JSON, has
\* the shape that was asked for.
ConformingTexts ==
  [fenced : BOOLEAN, json : {TRUE}, value : WellFormedLists]
    \cup [fenced : BOOLEAN, json : {FALSE}]

ConformingNext ==
  \/ Mount
  \/ explanationCompletes
  \/ timerCompletes
  \/ Settled /\ \E f \in FileInputs : handleFileChange(f)
  \/ Settled /\ \E f \in FileInputs : handleDrop(f)
  \/ Settled /\ \E i \in QuestionIndices, a \in Answers :
                  handleAnswerSelect(i, a)
  \/ Settled /\ resetQuiz
  \/ Settled /\ generateQuestions
  \/ Settled /\ generationFailed
  \/ Settled /\ \E text \in ConformingTexts : generationResponded(text)
  \/ Settled /\ \E k \in 1..Len(pdfList) : handlePdfSelect(pdfList[k])
  \/ Settled /\ clearAll
  \/ Settled /\ \E f \in FileInputs : uploadNewPdf(f)
  \/ Settled /\ togglePage

ConformingSpec == Init /\ [][ConformingNext]_vars

\* ExplanationSpec: sessions in which explanation retrievals may be in flight
\* across any number of user events; the provider answers a generation with
\* the two-question list, and timers and a running generation complete
\* before the next event.
GoodTexts == [fenced : {FALSE}, json : {TRUE}, value : {<<QA, QB>>}]

NoTimer == pendingTimers = EmptyBag

Quiet == NoTimer /\ ~generation.active

ExplanationNext ==
  \/ Mount
  \/ timerCompletes
  \/ \E text \in GoodTexts : generationResponded(text)
  \/ NoTimer /\ explanationCompletes
  \/ Quiet /\ handleDrop(PdfA)
  \/ Quiet /\ \E i \in QuestionIndices, a \in Answers :
                handleAnswerSelect(i, a)
  \/ Quiet /\ resetQuiz
  \/ Quiet /\ generateQuestions
  \/ Quiet /\ \E k \in 1..Len(pdfList) : handlePdfSelect(pdfList[k])
  \/ Quiet /\ clearAll
  \/ Quiet /\ togglePage

ExplanationSpec == Init /\ [][ExplanationNext]_vars

\* StoreSpec: sessions that save, reopen and delete quizzes; the provider
\* answers with the one-question list, explanations, timers and the
\* generation complete before the next event, and the byte captures of
\* handleSaveQuiz complete before the next event other than another click on
\* Save Quiz.
Idle == Settled /\ ~generation.active

NoSave == Len(pendingSaves) = 0

StoreNext ==
  \/ Mount
  \/ NoSave /\ Tick
  \/ \E c \in BagToSet(pendingExplanations) : explanationResolved(c, FALSE)
  \/ timerCompletes
  \/ generationResponded([fenced |-> FALSE, json |-> TRUE, value |-> <<QB>>])
  \/ Idle /\ NoSave /\ handleDrop(PdfA)
  \/ Idle /\ NoSave /\ \E a \in Answers : handleAnswerSelect(0, a)
  \/ Idle /\ NoSave /\ generateQuestions
  \/ Idle /\ handleSaveQuiz
  \/ Idle /\ \E n \in 1..Len(pendingSaves) : saveResolved(n)
  \/ Idle /\ \E n \in 1..Len(pendingSaves) : saveRejected(n)
  \/ Idle /\ NoSave /\ \E k \in 1..Len(pdfList) : handlePdfSelect(pdfList[k])
  \/ Idle /\ NoSave /\ \E id \in RecordIds : handleDeletePdf(id)
  \/ Idle /\ NoSave /\ clearAll
  \/ Idle /\ NoSave /\ togglePage

StoreSpec == Init /\ [][StoreNext]_vars

\* SlideSpec: sessions that move between slides and pages; the provider
\* answers with a well-formed list, explanations complete before the next
\* event, and an auto-advance timer may fire after any number of events.
SlideTexts == [fenced : {FALSE}, json : {TRUE}, value : WellFormedLists]

NoExplanation == pendingExplanations = EmptyBag

\* The slide numbers the carousel reports to afterChange.
SlideReports == 0..MaxReportedSlide

SlideNext ==
  \/ Mount
  \/ \E c \in BagToSet(pendingExplanations) : explanationResolved(c, FALSE)
  \/ timerCompletes
  \/ NoExplanation /\ handleDrop(PdfA)
  \/ NoExplanation /\ \E i \in QuestionIndices, a \in Answers :
                        handleAnswerSelect(i, a)
  \/ NoExplanation /\ resetQuiz
  \/ NoExplanation /\ generateQuestions
  \/ NoExplanation /\ \E text \in SlideTexts : generationResponded(text)
  \/ NoExplanation /\ \E k \in 1..Len(pdfList) : handlePdfSelect(pdfList[k])
  \/ NoExplanation /\ clearAll
  \/ NoExplanation /\ togglePage
  \/ NoExplanation /\ viewExplanations
  \/ NoExplanation /\ backToQuiz
  \/ NoExplanation /\ previousSlide
  \/ NoExplanation /\ nextSlide
  \/ NoExplanation /\ \E previous \in QuestionIndices,
                           slide \in SlideReports :
                        afterChange(previous, slide)
  \/ NoExplanation /\ \E previous \in QuestionIndices,
                           state \in CarouselStates :
                        afterChange(previous, state)

SlideSpec == Init /\ [][SlideNext]_vars

\* LoadSpec: sessions that start over any stored text, generate and answer
\* a quiz and clear it, without opening, saving or deleting a saved quiz.
LoadNext ==
  \/ Mount
  \/ explanationCompletes
  \/ timerCompletes
  \/ Settled /\ \E f \in FileInputs : handleDrop(f)
  \/ Settled /\ \E i \in QuestionIndices, a \in Answers :
                  handleAnswerSelect(i, a)
  \/ Settled /\ generateQuestions
  \/ Settled /\ \E text \in SlideTexts : generationResponded(text)
  \/ Settled /\ clearAll
  \/ Settled /\ togglePage

LoadSpec == LoadInit /\ [][LoadNext]_vars

\* OverlapSpec: one generated two-question quiz that is answered once, with
\* explanation retrievals and timers completing in any order between the
\* answers.
FirstGeneration == Len(questions) = 0

OverlapNext ==
  \/ Mount
  \/ explanationCompletes
  \/ timerCompletes
  \/ handleDrop(PdfA)
  \/ FirstGeneration /\ generateQuestions
  \/ \E text \in GoodTexts : generationResponded(text)
  \/ \E i \in QuestionIndices, a \in Answers : handleAnswerSelect(i, a)
  \/ togglePage

OverlapSpec == Init /\ [][OverlapNext]_vars

\* AdvanceSpec: OverlapSpec in which every generateExplanation call returns
\* and every timer set by setTimeout fires.
AdvanceSpec ==
  OverlapSpec /\ WF_vars(explanationCompletes) /\ WF_vars(timerCompletes)

\* GenerationSpec: sessions that generate from a dropped file and from the
\* file of a reopened quiz, with any answer of the provider and any failure,
\* in which every call of generateQuestions returns.  Explanations and timers
\* complete before the next event.
generationCompletes ==
  \/ generationFailed
  \/ \E text \in ResponseTexts : generationResponded(text)

GenerationNext ==
  \/ Mount
  \/ explanationCompletes
  \/ timerCompletes
  \/ generationCompletes
  \/ Settled /\ \E f \in FileInputs : handleDrop(f)
  \/ Settled /\ \E a \in Answers : handleAnswerSelect(0, a)
  \/ Settled /\ generateQuestions
  \/ Settled /\ \E k \in 1..Len(pdfList) : handlePdfSelect(pdfList[k])
  \/ Settled /\ clearAll
  \/ Settled /\ togglePage

GenerationSpec ==
  Init /\ [][GenerationNext]_vars /\ WF_vars(generationCompletes)

(***************************************************************************)
(* Claims.                                                                 *)
(***************************************************************************)
\* The indices answered with the correctAnswer of the question now at that
\* index.
CorrectlyAnswered ==
  {i \in DOMAIN selectedAnswers :
     /\ i \in Indices(questions)
     /\ selectedAnswers[i] = CorrectAnswerOf(At(questions, i))}

\* The indices answered with something else than the correctAnswer of the
\* question now at that index.
IncorrectlyAnswered ==
  {i \in DOMAIN selectedAnswers :
     /\ i \in Indices(questions)
     /\ selectedAnswers[i] # CorrectAnswerOf(At(questions, i))}

\* C1: in every reachable state, score is the number of answered indices
\* whose stored answer equals the correctAnswer of the current question at
\* that index.
C1_ScoreCountsCorrectAnswers == score = Cardinality(CorrectlyAnswered)

\* C2: in every reachable state, selectedAnswers has at most as many keys as
\* there are questions.
C2_AnswersWithinQuestions == KeyCount(selectedAnswers) <= Len(questions)

\* C3: in every reachable state, score is at least 0 and at most the number
\* of keys of selectedAnswers.
C3_ScoreWithinAnswers == 0 <= score /\ score <= KeyCount(selectedAnswers)

\* C3 witness: an answer was just recorded and every recorded answer counts.
C3_Witness ==
  /\ lastOp = [op |-> "handleAnswerSelect", ignored |-> FALSE]
  /\ score = 2
  /\ KeyCount(selectedAnswers) = 2

\* C4: a call of handleAnswerSelect for an index that already has an entry in
\* selectedAnswers changes neither selectedAnswers, score nor explanations and
\* starts no explanation retrieval and no timer, whatever the answer.
C4_WriteOnceAnswers ==
  [][\A i \in QuestionIndices, a \in Answers :
       (i \in DOMAIN selectedAnswers /\ handleAnswerSelect(i, a))
         => UNCHANGED <<selectedAnswers, score, explanations,
                        pendingExplanations, pendingTimers>>]_vars

\* C4 witness: the handler was just called for an answered index, in a
\* session that holds a recorded answer.
C4_Witness ==
  /\ lastOp = [op |-> "handleAnswerSelect", ignored |-> TRUE]
  /\ KeyCount(selectedAnswers) > 0

\* C5: in every reachable state, explanations has keys only at indices that
\* are answered, with an answer that is not the question's correctAnswer.
C5_ExplanationsOnlyForIncorrect ==
  DOMAIN explanations \subseteq IncorrectlyAnswered

\* C6: a generation that answers after the session was cleared (clearAll) or
\* replaced (handlePdfSelect, Upload New PDF) leaves questions as they are.
C6_StaleGenerationDiscarded ==
  [][(generation.active /\ generation.superseded
      /\ \E text \in ResponseTexts : generationResponded(text))
       => questions' = questions]_vars

\* The ways a generation fails in the code: a throw of the extraction or of
\* the provider call, or an answer that JSON.parse rejects.
generationFails ==
  \/ generationFailed
  \/ \E text \in ResponseTexts :
       ~TextParses(CleanText(text)) /\ generationResponded(text)

\* C7: when a generation started from a session with questions and recorded
\* answers fails, an error is set and questions, selectedAnswers, score and
\* explanations are what they were before the generation was started.
C7_FailurePreservesSession ==
  [][(/\ generation.active
      /\ Len(generation.before.questions) > 0
      /\ KeyCount(generation.before.selectedAnswers) > 0
      /\ generationFails)
       => /\ error' # Null
          /\ questions' = generation.before.questions
          /\ selectedAnswers' = generation.before.selectedAnswers
          /\ score' = generation.before.score
          /\ explanations' = generation.before.explanations]_vars

\* C8: when generation was started again from a session that shows a
\* well-formed question list and the provider's answer is structurally
\* malformed, the generation ends with an error and the shown questions stay.
C8_MalformedResponseIsFailure ==
  [][\A text \in ResponseTexts :
       (/\ generation.active
        /\ Len(generation.before.questions) > 0
        /\ IsWellFormedList(generation.before.questions)
        /\ ~(TextParses(CleanText(text)) /\ IsWellFormedList(text.value))
        /\ generationResponded(text))
         => error' # Null /\ questions' = questions]_vars

\* The records of a list, and the records a stored text holds.
RecordsOf(list) == {list[k] : k \in 1..Len(list)}
StoredRecords(item) ==
  IF JsonParses(item) THEN RecordsOf(JsonParse(item)) ELSE {}

\* C9: a record leaves pdfList, and its stored form leaves the store, only in
\* a step of handleDeletePdf with the record's id.
C9_OnlyDeleteRemovesRecords ==
  [][/\ \A r \in RecordsOf(pdfList) \ RecordsOf(pdfList') :
          handleDeletePdf(r.id)
     /\ \A r \in StoredRecords(localStorage) \ StoredRecords(localStorage') :
          handleDeletePdf(r.id)]_vars

\* The list without its k-th record.
WithoutRecordAt(list, k) ==
  [j \in 1..(Len(list) - 1) |-> IF j < k THEN list[j] ELSE list[j + 1]]

\* C10: handleDeletePdf(id) removes exactly one record, one whose id is the
\* argument, and keeps the others in order; with no such record the list is
\* unchanged.
C10_DeleteRemovesExactlyOne ==
  [][\A id \in RecordIds :
       handleDeletePdf(id) =>
         IF \E k \in 1..Len(pdfList) : pdfList[k].id = id
           THEN \E k \in 1..Len(pdfList) :
                  pdfList[k].id = id /\ pdfList' = WithoutRecordAt(pdfList, k)
           ELSE pdfList' = pdfList]_vars

\* C11: the questions of a session travel unchanged, in order, from the click
\* on Save Quiz into the call awaiting the bytes, from there into the record
\* appended to pdfList, through the stored text and the load effect, and from
\* the record into the session handlePdfSelect opens, which has no recorded
\* answers, score 0 and no explanations.
C11_SaveSelectRoundTrip ==
  [][/\ (handleSaveQuiz /\ file # NoFile /\ Len(questions) > 0)
          => pendingSaves'[Len(pendingSaves')].questions = questions
     /\ \A n \in 1..Len(pendingSaves) :
          saveResolved(n)
            => pdfList'[Len(pdfList')].questions = pendingSaves[n].questions
     /\ pdfList' # pdfList
          => \A k \in 1..Len(pdfList') :
               LoadedQuizzes(SerializedQuizzes(pdfList'))[k].questions
                 = pdfList'[k].questions
     /\ \A k \in 1..Len(pdfList) :
          handlePdfSelect(pdfList[k])
            => /\ questions' = pdfList[k].questions
               /\ selectedAnswers' = EmptyMap
               /\ score' = 0
               /\ explanations' = EmptyMap]_vars

\* C11 witness: a record saved in this run was just opened and the session
\* shows its questions.
C11_Witness ==
  /\ lastOp = [op |-> "handlePdfSelect"]
  /\ \E k \in 1..Len(pdfList) :
       pdfList[k].id > 0 /\ pdfList[k].questions = questions
  /\ Len(questions) > 0
  /\ selectedAnswers = EmptyMap /\ score = 0 /\ explanations = EmptyMap

\* C12: at most one generation is in flight: loading is true exactly while a
\* generateQuestions call awaits its result, and a call is started only when
\* loading is false and no call is in flight, whatever file selections, loads
\* of saved quizzes, clears and clicks came before.
C12_OneGenerationInFlight ==
  [][/\ generateQuestions => (~loading /\ ~generation.active)
     /\ loading' = generation'.active]_vars

\* C12 witness: a saved quiz was opened while a generation is in flight; the
\* Generate Questions button is rendered with a file selected.
C12_Witness ==
  /\ lastOp = [op |-> "handlePdfSelect"]
  /\ loading /\ generation.active
  /\ currentPage = "upload" /\ file # NoFile

\* C13: when the provider's answer parses, the generation ends with loading
\* false, questions set to the generated list, no recorded answers, score 0,
\* no explanations and currentSlide 0.
C13_SuccessResetsSession ==
  [][\A text \in ResponseTexts :
       (/\ generation.active
        /\ TextParses(CleanText(text))
        /\ generationResponded(text))
         => /\ ~loading'
            /\ questions' = text.value
            /\ selectedAnswers' = EmptyMap
            /\ score' = 0
            /\ explanations' = EmptyMap
            /\ currentSlide' = 0]_vars

\* C14: a call of handleFileChange or handleDrop with a file whose type is not
\* application/pdf, or with no file, sets an error and leaves questions and
\* loading as they were.
C14_NonPdfKeepsSession ==
  [][\A f \in FileInputs :
       (~IsPdf(f) /\ (handleFileChange(f) \/ handleDrop(f)))
         => /\ error' # Null
            /\ questions' = questions
            /\ loading' = loading]_vars

\* C14 witness: a file of another type was just dropped on a session that
\* shows questions while a generation is loading.
C14_Witness ==
  /\ lastOp = [op |-> "handleDrop", accepted |-> FALSE]
  /\ error = "Please drop a valid PDF file"
  /\ Len(questions) > 0
  /\ loading

\* C15: while questions are shown on the upload page, the score panel is
\* rendered if and only if every index of questions has an entry in
\* selectedAnswers.
C15_CompleteIffAllAnswered ==
  (currentPage = "upload" /\ Len(questions) > 0)
    => (IsComplete <=> Indices(questions) \subseteq DOMAIN selectedAnswers)

\* C16: whenever questions is non-empty, currentSlide is a number and an
\* index of questions.
C16_SlideWithinQuestions ==
  Len(questions) > 0
    => IsNumber(currentSlide) /\ currentSlide \in Indices(questions)

\* C17: a call of handleAnswerSelect for an index without an entry adds 1 to
\* score and starts no explanation retrieval when the answer is the
\* question's correctAnswer; otherwise it leaves score as it is and starts
\* exactly one explanation retrieval, for that index.
C17_ScoreOrExplanation ==
  [][\A i \in QuestionIndices, a \in Answers :
       (i \notin DOMAIN selectedAnswers /\ handleAnswerSelect(i, a))
         => IF a = CorrectAnswerOf(At(questions, i))
              THEN /\ score' = score + 1
                   /\ pendingExplanations' = pendingExplanations
              ELSE /\ score' = score
                   /\ \E c \in BagToSet(pendingExplanations') :
                        /\ c.questionIndex = i
                        /\ pendingExplanations'
                             = pendingExplanations (+) SetToBag({c})]_vars

\* C17 witness: after a correct answer that raised score to 1, an incorrect
\* answer was just recorded: score is still 1 and one retrieval is in flight.
C17_Witness ==
  /\ lastOp = [op |-> "handleAnswerSelect", ignored |-> FALSE]
  /\ score = 1
  /\ KeyCount(selectedAnswers) = 2
  /\ BagCardinality(pendingExplanations) = 1

\* C18: resetQuiz empties selectedAnswers and explanations, sets score to 0,
\* and leaves questions, file, currentSlide and pdfList as they were.
C18_ResetKeepsQuestions ==
  [][resetQuiz
       => /\ selectedAnswers' = EmptyMap
          /\ score' = 0
          /\ explanations' = EmptyMap
          /\ UNCHANGED <<questions, file, currentSlide, pdfList>>]_vars

\* C18 witness: Try Again was just clicked on a two-question session that is
\* on its second slide, with a file selected and a saved quiz in the list.
C18_Witness ==
  /\ lastOp = [op |-> "resetQuiz"]
  /\ selectedAnswers = EmptyMap /\ score = 0 /\ explanations = EmptyMap
  /\ Len(questions) = 2
  /\ currentSlide = 1
  /\ file # NoFile
  /\ Len(pdfList) > 0

\* A session that is ready to be saved: not loading, a file selected and
\* questions shown on the upload page, with room for one more call in flight.
ReadyToSave ==
  /\ mounted /\ currentPage = "upload"
  /\ ~loading
  /\ file # NoFile
  /\ Len(questions) > 0
  /\ Len(pendingSaves) < MaxPendingSaves

\* C19: Save Quiz can be clicked on every ready session with a file and
\* questions, whether or not every question is answered, and the save
\* appends exactly one record, with the questions and the score of the click
\* and totalQuestions equal to the number of questions.
C19_SaveAlwaysPermitted ==
  [][/\ ReadyToSave => ENABLED handleSaveQuiz
     /\ \A n \in 1..Len(pendingSaves) :
          saveResolved(n)
            => /\ Len(pdfList') = Len(pdfList) + 1
               /\ SubSeq(pdfList', 1, Len(pdfList)) = pdfList
               /\ pdfList'[Len(pdfList')].questions = pendingSaves[n].questions
               /\ pdfList'[Len(pdfList')].score = pendingSaves[n].score
               /\ pdfList'[Len(pdfList')].totalQuestions
                    = Len(pendingSaves[n].questions)]_vars

StoreMirrors ==
  IF Len(pdfList) = 0
    THEN localStorage = NoItem
    ELSE /\ JsonParses(localStorage)
         /\ Len(JsonParse(localStorage)) = Len(pdfList)
         /\ \A k \in 1..Len(pdfList) :
              JsonParse(localStorage)[k]
                = JsonOfRecord(SerializeQuiz(pdfList[k]))

\* The text of the list the step leaves is longer than the stored text.
LongerText ==
  /\ Len(pdfList') > 0
  /\ ItemLength(SerializedQuizzes(pdfList')) > ItemLength(localStorage)

RecordFields ==
  {"id", "name", "fileName", "fileData", "date", "questions", "score",
   "totalQuestions"}
HoldsRecords(item) ==
  /\ JsonParses(item)
  /\ HasMap(item)
  /\ \A k \in 1..Len(JsonParse(item)) :
       RecordFields \subseteq DOMAIN JsonParse(item)[k]

\* C21: the mount effects complete whatever the store holds; when the stored
\* value is absent or is not the text of a list of records, pdfList is empty
\* afterwards, and file, questions, selectedAnswers and score are untouched.
C21_LoadToleratesBadStore ==
  [][Mount
       => /\ ~HoldsRecords(localStorage) => pdfList' = <<>>
          /\ UNCHANGED <<file, questions, selectedAnswers, score>>]_vars

\* The text a retrieval for the answer now recorded at index i resolves to,
\* or the placeholder.
ResultsFor(i) ==
  {ExplanationText(At(questions, i), selectedAnswers[i]), UnableToGenerate}

\* Every incorrectly answered index holds its own result and no other index
\* holds one.
ExplanationsMerged ==
  /\ DOMAIN explanations = IncorrectlyAnswered
  /\ \A i \in DOMAIN explanations : explanations[i] \in ResultsFor(i)

\* C22: a retrieval that completes stores its result under its own index and
\* leaves every other entry of explanations as it is, and once all of the
\* overlapping retrievals have completed, in whichever order, explanations
\* holds for every incorrectly answered index the result for that index.
C22_ExplanationsMergeByIndex ==
  [][/\ \A c \in BagToSet(pendingExplanations), failed \in BOOLEAN :
          explanationResolved(c, failed)
            => /\ DOMAIN explanations'
                    = DOMAIN explanations \cup {c.questionIndex}
               /\ \A j \in DOMAIN explanations \ {c.questionIndex} :
                    explanations'[j] = explanations[j]
     /\ pendingExplanations' = EmptyBag => ExplanationsMerged']_vars

\* C22 witness: of two retrievals that were in flight together, the one for
\* index 1 has just completed first and the one for index 0 is still pending.
C22_Witness ==
  /\ lastOp = [op |-> "explanationResolved", failed |-> FALSE]
  /\ DOMAIN explanations = {1}
  /\ \E c \in BagToSet(pendingExplanations) : c.questionIndex = 0

\* An answer for index i, which is not the last index of the questions of its
\* handler, awaits its explanation or its timer.
AdvancePending(i) ==
  \/ \E c \in BagToSet(pendingExplanations) :
       c.questionIndex = i /\ i < c.length - 1
  \/ \E t \in BagToSet(pendingTimers) :
       t.questionIndex = i /\ i < t.length - 1

\* C23: after an answer is recorded for an index that is not the last,
\* currentSlide eventually becomes that index plus 1; a timer set for the
\* last index leaves currentSlide as it is; and while an explanation is
\* pending, every option of an unanswered question can still be clicked.
C23_AutoAdvance ==
  /\ \A i \in QuestionIndices : AdvancePending(i) ~> (currentSlide = i + 1)
  /\ [][/\ \A t \in BagToSet(pendingTimers) :
             (advanceTimerFired(t) /\ t.questionIndex >= t.length - 1)
               => UNCHANGED currentSlide
        /\ \A i \in QuestionIndices, a \in Answers :
             (/\ pendingExplanations # EmptyBag /\ pendingTimers = EmptyBag
              /\ BagCardinality(pendingExplanations)
                   < MaxPendingExplanations
              /\ mounted /\ currentPage = "upload"
              /\ i \in Indices(questions) \ DOMAIN selectedAnswers)
               => ENABLED handleAnswerSelect(i, a)]_vars

\* C23 witness: the timer of the answer to index 0 has just moved the carousel
\* to slide 1 while the explanation of the answer the user gave to index 1 in
\* the meantime is still pending.
C23_Witness ==
  /\ lastOp = [op |-> "advanceTimerFired"]
  /\ currentSlide = 1
  /\ KeyCount(selectedAnswers) = 2
  /\ \E c \in BagToSet(pendingExplanations) : c.questionIndex = 1

\* The errors generateQuestions sets when it fails.
GenerationErrors ==
  {"Failed to generate questions. Please try again.",
   "Failed to parse questions. Please try again."}

\* The two outcomes of a generation that answers with the list value: the
\* list replaces questions and the generation sets no error, or one of its
\* errors is set and questions stay.
GenerationSucceeded(value) ==
  questions' = value /\ error' = error /\ error' \notin GenerationErrors
GenerationErrored == error' \in GenerationErrors /\ questions' = questions

\* C24 as stated: every started generation ends with loading false, and a
\* call that ends with a text that parses leaves the parsed list in questions
\* and no error at all, while a failed call leaves its error and questions.
C24_GenerationEndsWithoutError ==
  /\ generation.active ~> ~loading
  /\ [][/\ generationFails
             => ~loading' /\ GenerationErrored
        /\ \A text \in ResponseTexts :
             (TextParses(CleanText(text)) /\ generationResponded(text))
               => ~loading' /\ questions' = text.value /\ error' = Null]_vars

\* C24, amended: every started generation ends, with loading false.  A call
\* that ends after an extraction or provider failure or with a text that does
\* not parse sets its error and leaves questions; a call that ends with a text
\* that parses replaces questions by the parsed list, sets none of its errors
\* and leaves the error field as it found it, so that a validation error set
\* while the call was loading is still shown; never both, and questions is
\* never anything else.
C24_GenerationEnds ==
  /\ generation.active ~> ~loading
  /\ [][/\ generationFails
             => ~loading' /\ GenerationErrored
        /\ \A text \in ResponseTexts :
             (TextParses(CleanText(text)) /\ generationResponded(text))
               => /\ ~loading'
                  /\ GenerationSucceeded(text.value)
                  /\ ~GenerationErrored]_vars

\* C24 witness: a generation has just ended with a text that parses, after a
\* file that is no PDF was dropped while it was loading: loading is false, the
\* parsed list is shown and the validation error of the drop is still set.
C24_Witness ==
  /\ lastOp.op = "generationResponded"
  /\ ~loading
  /\ Len(questions) > 0
  /\ file = NoFile
  /\ error = "Please drop a valid PDF file"

\* The placeholder of line 103.
Placeholder == [text |-> "Unable to generate explanation."]

\* C25: a retrieval that fails stores the placeholder under its index, leaves
\* questions, selectedAnswers, score, error and every other explanation as
\* they are and sets the auto-advance timer for its index; after a failure
\* for index 0 of two questions currentSlide still becomes 1.
C25_ExplanationFailureNonFatal ==
  /\ [][\A c \in BagToSet(pendingExplanations) :
          explanationResolved(c, TRUE)
            => /\ explanations' = Put(explanations, c.questionIndex, Placeholder)
               /\ UNCHANGED <<questions, selectedAnswers, score, error>>
               /\ \E t \in BagToSet(pendingTimers') :
                    /\ t.questionIndex = c.questionIndex
                    /\ pendingTimers' = pendingTimers (+) SetToBag({t})]_vars
  /\ (/\ lastOp = [op |-> "explanationResolved", failed |-> TRUE]
      /\ \E t \in BagToSet(pendingTimers) : t.questionIndex = 0 /\ t.length = 2)
       ~> (currentSlide = 1)

\* C25 witness: a retrieval has just failed in a session that already held
\* the explanation of another index, which is still there.
C25_Witness ==
  /\ lastOp = [op |-> "explanationResolved", failed |-> TRUE]
  /\ \E i \in DOMAIN explanations, j \in DOMAIN explanations :
       /\ explanations[i] = Placeholder
       /\ explanations[j] # Placeholder

\* C26: in every reachable state the records of pdfList have pairwise
\* distinct ids.
C26_RecordIdsDistinct ==
  \A j \in 1..Len(pdfList), k \in 1..Len(pdfList) :
    j # k => pdfList[j].id # pdfList[k].id

\* C27: in every reachable state, an entry of explanations at an index that
\* has a recorded answer is the placeholder or the text that was retrieved
\* for the answer now recorded at that index.
C27_ExplanationMatchesAnswer ==
  \A i \in DOMAIN explanations :
    i \in DOMAIN selectedAnswers
      => \/ explanations[i] = Placeholder
         \/ explanations[i].userAnswer = selectedAnswers[i]

\* C28: in every reachable state with questions shown, a file is selected.
C28_QuestionsHaveFile == Len(questions) > 0 => file # NoFile

\* What a stored record says about the quiz: its id, name, date, questions,
\* score and total.
QuizFields(r) ==
  [id |-> r.id, name |-> r.name, date |-> r.date, questions |-> r.questions,
   score |-> r.score, totalQuestions |-> r.totalQuestions]

\* C29: when the widget mounts over a store that holds a non-empty list of
\* records, the store holds after the mount effects the same number of
\* records, in the same order, each with the id, name, date, questions, score
\* and total it had before.
C29_MountKeepsStore ==
  [][(/\ Mount
      /\ HoldsRecords(localStorage)
      /\ Len(JsonParse(localStorage)) > 0)
       => /\ JsonParses(localStorage')
          /\ Len(JsonParse(localStorage')) = Len(JsonParse(localStorage))
          /\ \A k \in 1..Len(JsonParse(localStorage)) :
               QuizFields(JsonParse(localStorage')[k])
                 = QuizFields(JsonParse(localStorage)[k])]_vars

\* C29 witness: the widget has just mounted over a store of two records and
\* the store holds them, the earlier one first.
C29_Witness ==
  /\ lastOp = [op |-> "mount"]
  /\ Len(pdfList) = 2
  /\ JsonParses(localStorage)
  /\ Len(JsonParse(localStorage)) = 2
  /\ JsonParse(localStorage)[1].id = EarlierRecord.id
  /\ JsonParse(localStorage)[2].id = LaterRecord.id

====
